---- MODULE Spec2Model ----
(***************************************************************************)
(* Model of denon_remote: the DenonRemote client (src/denon_remote.py) and *)
(* its command-line runner (src/run_remote.py).                            *)
(*                                                                         *)
(* The program is Python 2 code written against pyserial 3.x: it hands str *)
(* objects to Serial.write and calls Serial.read_until(terminator=, size=).*)
(* Integer "/" is therefore floor division, str is a byte string, and      *)
(* read_until returns the bytes read INCLUDING the terminator.  The port   *)
(* is created with Serial() and no timeout, so every read blocks.          *)
(*                                                                         *)
(* Byte strings are sequences of one-character strings.                    *)
(*                                                                         *)
(* Three specifications:                                                   *)
(*   Spec      a constructed client driven by an arbitrary caller          *)
(*   SpecMain  one run of run_remote.main()                                *)
(*   SpecLog   several clients constructed in one process, which share the *)
(*             logger logging.getLogger(__name__)                          *)
(***************************************************************************)
EXTENDS Integers, Sequences, FiniteSets, TLC

VARIABLES
    port,     \* self.port: "unset" (attribute missing), "open", "closed"
    pc,       \* the client's position: "idle", "reading" (blocked in read_until), "raised"
    exc,      \* the exception that left the client: "none" or its class name
    cur,      \* the device operation invoked last: [op, level, name]
    tx,       \* the lines port.write() was given during the last operation
    rx,       \* the serial input buffer: bytes received and not yet read
    pending,  \* TRUE while the receiver owes the reply to a query line
    resp,     \* what query() returned during the last operation: [isNone, bytes]
    log,      \* the logger calls of the last method: [level, msg, arg]
    opens,    \* number of open() calls
    ops,      \* number of device operations invoked
    closes,   \* number of close() calls
    args,     \* run_remote: the parsed command line
    mpc,      \* run_remote: position in main(); "api" when there is no main
    handlers,     \* the shared logger's handlers: the level of each, in order
    loggerLevel,  \* the shared logger's own level
    instances     \* number of DenonRemote objects constructed in this process

vars == <<port, pc, exc, cur, tx, rx, pending, resp, log, opens, ops, closes, args, mpc,
          handlers, loggerLevel, instances>>

client == <<port, pc, exc, cur, tx, rx, pending, resp, log>>
counts == <<opens, ops, closes>>
runner == <<args, mpc>>
logging == <<handlers, loggerLevel, instances>>

(***************************************************************************)
(* Bounds of the model.                                                    *)
(***************************************************************************)
MaxPercent == 104     \* largest volume percentage the caller passes
NegPercent == 2       \* the caller passes percentages down to -NegPercent
MaxReply   == 200     \* longest burst of bytes the receiver sends
MaxCalls   == 4       \* calls the caller of Spec makes on the client
MaxInstances == 3     \* clients one process of SpecLog constructs

(***************************************************************************)
(* Program constants.                                                      *)
(***************************************************************************)
max_volume == 65
min_volume == 25
ReadSize   == 135

CR == "\r"

Digit == <<"0", "1", "2", "3", "4", "5", "6", "7", "8", "9">>

RECURSIVE Decimal(_)
\* '{}'.format(n) and '%d' % n of a non-negative integer
Decimal(n) ==
    IF n < 10 THEN <<Digit[n + 1]>>
    ELSE Append(Decimal(n \div 10), Digit[(n % 10) + 1])

\* '{}'.format(n) of an integer
FormatInt(n) == IF n < 0 THEN <<"-">> \o Decimal(0 - n) ELSE Decimal(n)

NoneVal == [isNone |-> TRUE, bytes |-> <<>>]
Some(b) == [isNone |-> FALSE, bytes |-> b]

\* '{}'.format(r) of query()'s result
FormatResp(r) == IF r.isNone THEN <<"N", "o", "n", "e">> ELSE r.bytes

Rec(level, msg, arg) == [level |-> level, msg |-> msg, arg |-> arg]

\* the logging levels, lowest first; a logger nobody configured is NOTSET
Levels == <<"NOTSET", "DEBUG", "INFO", "WARNING", "ERROR", "CRITICAL">>

\* the choices of --verbosity, the values init_logging is given
Verbosities == {"DEBUG", "INFO", "WARNING", "ERROR", "CRITICAL"}

LevelNo(l) == CHOOSE i \in 1..Len(Levels) : Levels[i] = l

\* the level of the logger method a record was made with
MethodLevel(m) ==
    CASE m = "debug" -> "DEBUG"
      [] m = "info" -> "INFO"
      [] m = "error" -> "ERROR"

\* how many times the record r is emitted: not at all when it is below the
\* logger's level, else once by every handler whose level is not above it
Emitted(r) ==
    IF LevelNo(MethodLevel(r.level)) < LevelNo(loggerLevel)
    THEN 0
    ELSE Cardinality({k \in 1..Len(handlers) :
                         LevelNo(handlers[k]) <= LevelNo(MethodLevel(r.level))})

\* mutant: a handler is added only when the logger has none
init_logging_Once(log_level) ==
    /\ loggerLevel' = log_level
    /\ handlers' = IF handlers = <<>> THEN <<log_level>> ELSE handlers
    /\ log' = <<Rec("debug", "logging initialized", <<>>)>>

\* DenonRemote.init_logging
init_logging(log_level) ==
    /\ loggerLevel' = log_level
    /\ handlers' = Append(handlers, log_level)
    /\ log' = <<Rec("debug", "logging initialized", <<>>)>>

PW == <<"P", "W">>
MV == <<"M", "V">>
SI == <<"S", "I">>
PWON == <<"P", "W", "O", "N">>
PWSTANDBY == <<"P", "W", "S", "T", "A", "N", "D", "B", "Y">>

TV == <<"T", "V">>
DVD == <<"D", "V", "D">>
TUNER == <<"T", "U", "N", "E", "R">>
CD == <<"C", "D">>
VCR1 == <<"V", "C", "R", "-", "1">>
VCR2 == <<"V", "C", "R", "-", "2">>
PHONO == <<"P", "H", "O", "N", "O">>
VAUX == <<"V", ".", "A", "U", "X">>
CDRTAPE == <<"C", "D", "R", "/", "T", "A", "P", "E">>

\* the source names the command line accepts
Sources == {TV, DVD, TUNER, CD, VCR1, VCR2, PHONO, VAUX, CDRTAPE}

\* what a caller of the class may pass: also a name outside the vocabulary
AnyNames == Sources \cup {<<"B", "O", "G", "U", "S">>, <<>>}

Percents == (0 - NegPercent)..MaxPercent

NoCall == [op |-> "none", level |-> 0, name |-> <<>>]
Call(op, level, name) == [op |-> op, level |-> level, name |-> name]

(***************************************************************************)
(* The receiver: it answers a query line with one burst of bytes.          *)
(***************************************************************************)
Fill(n) == [i \in 1..n |-> "x"]

ReplyLens == {0, 1, ReadSize - 1, ReadSize, ReadSize + 1, MaxReply}

Replies ==
    {Fill(n) : n \in ReplyLens}
    \cup {Append(Fill(n), CR) : n \in ReplyLens}
    \cup {Append(PWON, CR), Append(MV \o <<"4", "5">>, CR),
          Append(SI \o TUNER, CR) \o Append(PWON, CR)}

ReceiverReply ==
    /\ pending
    /\ port = "open"
    /\ \E r \in Replies : rx' = rx \o r
    /\ pending' = FALSE
    /\ UNCHANGED <<port, pc, exc, cur, tx, resp, log, counts, runner, logging>>

(***************************************************************************)
(* The transport: Serial.read_until(terminator, size).                     *)
(***************************************************************************)
\* mutant: the size check lets one byte too many through
ReadLen_OneMore(buf, terminator, size) ==
    LET limit == IF Len(buf) < size + 1 THEN Len(buf) ELSE size + 1
        terms == {k \in 1..limit : buf[k] = terminator}
    IN  IF terms = {} THEN limit
        ELSE CHOOSE k \in terms : \A j \in terms : k <= j

\* the number of bytes read_until takes from buf: it reads byte by byte and
\* stops behind the first terminator or at size bytes (or, here, at the end
\* of what has arrived)
ReadLen(buf, terminator, size) ==
    LET limit == IF Len(buf) < size THEN Len(buf) ELSE size
        terms == {k \in 1..limit : buf[k] = terminator}
    IN  IF terms = {} THEN limit
        ELSE CHOOSE k \in terms : \A j \in terms : k <= j

\* mutant: the read returns what has arrived, as with a timeout
ReadReady_AnyBytes(buf, terminator, size) == Len(buf) >= 1

\* read_until returns once the terminator or size bytes have arrived
ReadReady(buf, terminator, size) ==
    \/ Len(buf) >= size
    \/ \E k \in 1..Len(buf) : buf[k] = terminator

\* mutant: the terminator is stripped from what is returned
read_until_Stripped(buf, terminator, size) ==
    LET n == ReadLen(buf, terminator, size)
    IN  IF n > 0 /\ buf[n] = terminator THEN SubSeq(buf, 1, n - 1) ELSE SubSeq(buf, 1, n)

read_until(buf, terminator, size) ==
    SubSeq(buf, 1, ReadLen(buf, terminator, size))

(***************************************************************************)
(* DenonRemote.                                                            *)
(***************************************************************************)
\* mutant: the exception is swallowed
Raise_Swallowed(e) == UNCHANGED <<pc, exc>>

Raise(e) ==
    /\ exc' = e
    /\ pc' = "raised"

\* mutant: a client that was closed cannot be opened again
open_NoReopen ==
    /\ opens' = opens + 1
    /\ log' = <<Rec("debug", "opening", <<>>)>>
    /\ rx' = <<>>
    /\ pending' = FALSE
    /\ \/ /\ port' = IF closes > 0 THEN "closed" ELSE "open"
          /\ UNCHANGED <<pc, exc>>
       \/ /\ port' = "closed"
          /\ Raise("SerialException")
    /\ UNCHANGED <<cur, tx, resp, ops, closes>>

\* DenonRemote.open
open ==
    /\ opens' = opens + 1
    /\ log' = <<Rec("debug", "opening", <<>>)>>
    /\ rx' = <<>>
    /\ pending' = FALSE
    /\ \/ /\ port' = "open"
          /\ UNCHANGED <<pc, exc>>
       \/ /\ port' = "closed"
          /\ Raise("SerialException")
    /\ UNCHANGED <<cur, tx, resp, ops, closes>>

\* DenonRemote.close
close ==
    /\ closes' = closes + 1
    /\ log' = <<Rec("debug", "closing", <<>>)>>
    /\ IF port = "unset"
       THEN Raise("AttributeError") /\ UNCHANGED port
       ELSE port' = "closed" /\ UNCHANGED <<pc, exc>>
    /\ UNCHANGED <<cur, tx, rx, pending, resp, opens, ops>>

NotOpen == Rec("error", "Tried to send a command but port wasn't open", <<>>)

\* mutant: the terminator is left out
CommandLine_NoCR(c) == c

\* '{}\r'.format(command)
CommandLine(c) == c \o <<CR>>

\* mutant: the question mark is left out
QueryLine_NoMark(q) == q \o <<CR>>

\* '{}?\r'.format(query)
QueryLine(q) == q \o <<"?", CR>>

\* DenonRemote.command, called by a device operation that has logged `first`.
\* tx records what port.write() was called with, also when the write raises.
command(c, first) ==
    /\ resp' = NoneVal
    /\ UNCHANGED rx
    /\ IF port = "unset"
       THEN /\ Raise("AttributeError")
            /\ log' = first
            /\ tx' = <<>>
            /\ UNCHANGED <<port, pending>>
       ELSE IF port = "closed"
       THEN /\ log' = Append(first, NotOpen)
            /\ tx' = <<>>
            /\ UNCHANGED <<port, pc, exc, pending>>
       ELSE /\ tx' = <<CommandLine(c)>>
            /\ log' = first
            /\ UNCHANGED <<port, pending>>
            /\ \/ UNCHANGED <<pc, exc>>
               \/ Raise("SerialException")

\* DenonRemote.query up to its read, called by a device operation that has
\* logged `first` and logs the reply under `label`
query(q, first, label) ==
    /\ UNCHANGED rx
    /\ resp' = NoneVal
    /\ IF port = "unset"
       THEN /\ Raise("AttributeError")
            /\ log' = first
            /\ tx' = <<>>
            /\ UNCHANGED <<port, pending>>
       ELSE IF port = "closed"
       THEN /\ log' = first \o <<NotOpen, Rec("info", label, FormatResp(NoneVal))>>
            /\ tx' = <<>>
            /\ UNCHANGED <<port, pc, exc, pending>>
       ELSE /\ tx' = <<QueryLine(q)>>
            /\ log' = first
            /\ UNCHANGED port
            /\ \/ /\ pending' = TRUE
                  /\ pc' = "reading"
                  /\ UNCHANGED exc
               \/ /\ Raise("SerialException")
                  /\ UNCHANGED pending

Label(op) ==
    CASE op = "query_power" -> "power: "
      [] op = "query_volume" -> "volume: "
      [] op = "query_source" -> "source: "
      [] OTHER -> ""

\* mutant: a failed read is retried by sending the query line again
QueryRead_Retry ==
    /\ pc = "reading"
    /\ \/ /\ ReadReady(rx, CR, ReadSize)
          /\ LET r == read_until(rx, CR, ReadSize) IN
                /\ resp' = Some(r)
                /\ rx' = SubSeq(rx, Len(r) + 1, Len(rx))
                /\ log' = Append(log, Rec("info", Label(cur.op), FormatResp(Some(r))))
          /\ pc' = "idle"
          /\ tx' = tx
          /\ UNCHANGED exc
       \/ /\ tx' = tx \o tx
          /\ UNCHANGED <<pc, exc, resp, rx, log>>
    /\ UNCHANGED <<port, cur, pending, counts, runner, logging>>

\* DenonRemote.query from its read on, and the caller's logging of the reply
QueryRead ==
    /\ pc = "reading"
    /\ \/ /\ ReadReady(rx, CR, ReadSize)
          /\ LET r == read_until(rx, CR, ReadSize) IN
                /\ resp' = Some(r)
                /\ rx' = SubSeq(rx, Len(r) + 1, Len(rx))
                /\ log' = Append(log, Rec("info", Label(cur.op), FormatResp(Some(r))))
          /\ pc' = "idle"
          /\ UNCHANGED exc
       \/ /\ Raise("SerialException")
          /\ UNCHANGED <<resp, rx, log>>
    /\ UNCHANGED <<port, cur, tx, pending, counts, runner, logging>>

power_off ==
    /\ cur' = Call("power_off", 0, <<>>)
    /\ ops' = ops + 1
    /\ command(PWSTANDBY, <<Rec("info", "powering off", <<>>)>>)
    /\ UNCHANGED <<opens, closes>>

power_on ==
    /\ cur' = Call("power_on", 0, <<>>)
    /\ ops' = ops + 1
    /\ command(PWON, <<Rec("info", "powering on", <<>>)>>)
    /\ UNCHANGED <<opens, closes>>

query_power ==
    /\ cur' = Call("query_power", 0, <<>>)
    /\ ops' = ops + 1
    /\ query(PW, <<Rec("info", "querying power status", <<>>)>>, Label("query_power"))
    /\ UNCHANGED <<opens, closes>>

query_volume ==
    /\ cur' = Call("query_volume", 0, <<>>)
    /\ ops' = ops + 1
    /\ query(MV, <<Rec("info", "querying volume status", <<>>)>>, Label("query_volume"))
    /\ UNCHANGED <<opens, closes>>

\* mutant: the division binds before the multiplication
NewVolume_DivideFirst(volume_level) ==
    (volume_level * ((max_volume - min_volume) \div 100)) + min_volume

\* new_volume = volume_level * (max_volume - min_volume) / 100 + min_volume,
\* on Python 2 integers: "/" is floor division
NewVolume(volume_level) ==
    ((volume_level * (max_volume - min_volume)) \div 100) + min_volume

\* mutant: the safety check is off by one
AboveMax_OffByOne(new_volume) == new_volume > max_volume + 1

\* the safety check of set_volume
AboveMax(new_volume) == new_volume > max_volume

\* 'MV{}'.format(new_volume)
VolumeCommand(new_volume) == MV \o FormatInt(new_volume)

set_volume(volume_level) ==
    /\ cur' = Call("set_volume", volume_level, <<>>)
    /\ ops' = ops + 1
    /\ LET new_volume == NewVolume(volume_level) IN
          IF AboveMax(new_volume)
          THEN /\ log' = <<Rec("error", "calculated volume setting above max volume level: ",
                               FormatInt(new_volume))>>
               /\ tx' = <<>>
               /\ resp' = NoneVal
               /\ UNCHANGED <<port, pc, exc, rx, pending>>
          ELSE command(VolumeCommand(new_volume),
                       <<Rec("info", "setting volume to ",
                             FormatInt(volume_level) \o <<"%", " ", "(">> \o MV
                                 \o FormatInt(new_volume) \o <<")">>)>>)
    /\ UNCHANGED <<opens, closes>>

query_source ==
    /\ cur' = Call("query_source", 0, <<>>)
    /\ ops' = ops + 1
    /\ query(SI, <<Rec("info", "querying input source", <<>>)>>, Label("query_source"))
    /\ UNCHANGED <<opens, closes>>

\* mutant: a name outside the vocabulary is replaced by the default source
SourceCommand_Checked(source_name) ==
    IF source_name \in Sources THEN SI \o source_name ELSE SI \o TV

\* 'SI{}'.format(source_name)
SourceCommand(source_name) == SI \o source_name

set_source(source_name) ==
    /\ cur' = Call("set_source", 0, source_name)
    /\ ops' = ops + 1
    /\ command(SourceCommand(source_name),
               <<Rec("info", "setting source to ", source_name)>>)
    /\ UNCHANGED <<opens, closes>>

(***************************************************************************)
(* Spec: a constructed client and a caller that may call anything.         *)
(***************************************************************************)
\* DenonRemote.__init__: it sets the logger, port_name and baud_rate, and no port
ClientInit ==
    /\ port = "unset"
    /\ pc = "idle"
    /\ exc = "none"
    /\ cur = NoCall
    /\ tx = <<>>
    /\ rx = <<>>
    /\ pending = FALSE
    /\ resp = NoneVal
    /\ log = <<Rec("debug", "logging initialized", <<>>)>>
    /\ opens = 0
    /\ ops = 0
    /\ closes = 0

NoArgs == [sub |-> "none", query |-> FALSE, hasLevel |-> FALSE, level |-> 0,
           power |-> "ON", source |-> <<>>, verbosity |-> "ERROR"]

\* DenonRemote(port_name): log_level defaults to logging.ERROR
Init ==
    /\ ClientInit
    /\ args = NoArgs
    /\ mpc = "api"
    /\ handlers = <<"ERROR">>
    /\ loggerLevel = "ERROR"
    /\ instances = 1

\* the caller may make another call: the last one returned without raising
CanCall == pc = "idle" /\ opens + ops + closes < MaxCalls

CallOpen ==
    /\ CanCall
    /\ open
    /\ UNCHANGED <<runner, logging>>

CallClose ==
    /\ CanCall
    /\ close
    /\ UNCHANGED <<runner, logging>>

CallPowerOff == CanCall /\ power_off /\ UNCHANGED <<runner, logging>>

CallPowerOn == CanCall /\ power_on /\ UNCHANGED <<runner, logging>>

CallQueryPower == CanCall /\ query_power /\ UNCHANGED <<runner, logging>>

CallQueryVolume == CanCall /\ query_volume /\ UNCHANGED <<runner, logging>>

CallSetVolume == CanCall /\ (\E v \in Percents : set_volume(v)) /\ UNCHANGED <<runner, logging>>

CallQuerySource == CanCall /\ query_source /\ UNCHANGED <<runner, logging>>

CallSetSource == CanCall /\ (\E s \in AnyNames : set_source(s)) /\ UNCHANGED <<runner, logging>>

Next ==
    \/ CallOpen
    \/ CallClose
    \/ CallPowerOff
    \/ CallPowerOn
    \/ CallQueryPower
    \/ CallQueryVolume
    \/ CallSetVolume
    \/ CallQuerySource
    \/ CallSetSource
    \/ QueryRead
    \/ ReceiverReply

Spec == Init /\ [][Next]_vars

(***************************************************************************)
(* SpecMain: one run of run_remote.main().                                 *)
(***************************************************************************)
VolumeArgs ==
    {[sub |-> "volume", query |-> q, hasLevel |-> h, level |-> l,
      power |-> "ON", source |-> <<>>] :
        q \in BOOLEAN, h \in {TRUE}, l \in Percents}
    \cup {[sub |-> "volume", query |-> q, hasLevel |-> FALSE, level |-> 0,
           power |-> "ON", source |-> <<>>] : q \in BOOLEAN}

\* the global options: -q is in each set above, -v is added here
WithVerbosity(a, v) ==
    [sub |-> a.sub, query |-> a.query, hasLevel |-> a.hasLevel, level |-> a.level,
     power |-> a.power, source |-> a.source, verbosity |-> v]

PowerArgs ==
    {[sub |-> "power", query |-> q, hasLevel |-> FALSE, level |-> 0,
      power |-> p, source |-> <<>>] : q \in BOOLEAN, p \in {"ON", "OFF"}}

SourceArgs ==
    {[sub |-> "source", query |-> q, hasLevel |-> FALSE, level |-> 0,
      power |-> "ON", source |-> s] : q \in BOOLEAN, s \in Sources}

\* the command lines parser.parse_args() accepts
ParsedArgs ==
    {WithVerbosity(a, v) : a \in VolumeArgs \cup PowerArgs \cup SourceArgs,
                           v \in Verbosities}

Nothing == UNCHANGED <<client, counts>>

\* mutant: a missing level is taken as level 0
volume_command_DefaultLevel ==
    IF args.query THEN query_volume
    ELSE set_volume(args.level)

volume_command ==
    IF args.query THEN query_volume
    ELSE IF args.hasLevel THEN set_volume(args.level)
    ELSE Nothing

\* mutant: the power argument is looked at before the query flag
power_command_StateFirst ==
    IF args.power = "OFF" THEN power_off
    ELSE IF args.query THEN query_power
    ELSE power_on

power_command ==
    IF args.query THEN query_power
    ELSE IF args.power = "ON" THEN power_on
    ELSE IF args.power = "OFF" THEN power_off
    ELSE Nothing

source_command ==
    IF args.query THEN query_source
    ELSE set_source(args.source)

InitMain ==
    /\ args \in ParsedArgs
    /\ mpc = "parsed"
    /\ port = "unset"
    /\ pc = "idle"
    /\ exc = "none"
    /\ cur = NoCall
    /\ tx = <<>>
    /\ rx = <<>>
    /\ pending = FALSE
    /\ resp = NoneVal
    /\ log = <<>>
    /\ opens = 0
    /\ ops = 0
    /\ closes = 0
    /\ handlers = <<>>
    /\ loggerLevel = "NOTSET"
    /\ instances = 0

\* remote = DenonRemote(args.port, log_level=getattr(logging, args.verbosity))
MainConstruct ==
    /\ mpc = "parsed"
    /\ pc = "idle"
    /\ init_logging(args.verbosity)
    /\ instances' = instances + 1
    /\ mpc' = "constructed"
    /\ UNCHANGED <<port, pc, exc, cur, tx, rx, pending, resp, counts, args>>

\* remote.open()
MainOpen ==
    /\ mpc = "constructed"
    /\ pc = "idle"
    /\ open
    /\ mpc' = "opened"
    /\ UNCHANGED <<args, logging>>

\* args.func(remote, args)
MainDispatch ==
    /\ mpc = "opened"
    /\ pc = "idle"
    /\ CASE args.sub = "volume" -> volume_command
         [] args.sub = "power" -> power_command
         [] args.sub = "source" -> source_command
    /\ mpc' = "called"
    /\ UNCHANGED <<args, logging>>

\* remote.close(), reached when args.func has returned
MainClose ==
    /\ mpc = "called"
    /\ pc = "idle"
    /\ close
    /\ mpc' = "done"
    /\ UNCHANGED <<args, logging>>

NextMain ==
    \/ MainConstruct
    \/ MainOpen
    \/ MainDispatch
    \/ QueryRead
    \/ ReceiverReply
    \/ MainClose

SpecMain == InitMain /\ [][NextMain]_vars

(***************************************************************************)
(* SpecLog: one process that constructs several clients.  The client       *)
(* variables hold the state of the client under observation, which is any  *)
(* one of those constructed; the logger is shared by all of them.          *)
(***************************************************************************)
\* the process has constructed its first client
InitLog ==
    /\ ClientInit
    /\ args = NoArgs
    /\ mpc = "api"
    /\ \E v \in Verbosities :
          /\ handlers = <<v>>
          /\ loggerLevel = v
    /\ instances = 1

\* DenonRemote(port_name, log_level) once more; the new client is observed
\* from here on, or the one observed so far stays
Construct ==
    /\ pc = "idle"
    /\ instances < MaxInstances
    /\ \E v \in Verbosities : init_logging(v)
    /\ instances' = instances + 1
    /\ \/ /\ port' = "unset"
          /\ cur' = NoCall
          /\ tx' = <<>>
          /\ rx' = <<>>
          /\ pending' = FALSE
          /\ resp' = NoneVal
       \/ UNCHANGED <<port, cur, tx, rx, pending, resp>>
    /\ UNCHANGED <<pc, exc, counts, runner>>

NextLog ==
    \/ Construct
    \/ CallOpen
    \/ CallClose
    \/ CallPowerOff

SpecLog == InitLog /\ [][NextLog]_vars

(***************************************************************************)
(* Properties.                                                             *)
(***************************************************************************)
Range(f) == {f[i] : i \in DOMAIN f}

HasError(l) == \E i \in 1..Len(l) : l[i].level = "error"

\* this step invokes a device operation
Invoked == ops' = ops + 1

QueryOps == {"query_power", "query_volume", "query_source"}

\* the invoked operation reaches command() or query(): every one does,
\* except a set_volume whose device value is above 65
ReachesTransport(c) == c.op = "set_volume" => 40 * c.level < 100 * (66 - 25)

\* C1: when the session is Closed (not Open), an operation that reaches
\* command() or query() writes nothing, reads nothing, logs the not-open
\* error, raises nothing and leaves the session as it was, every time.
C1_ClosedCommandAndQueryAreNoOps ==
    [][(Invoked /\ port # "open" /\ ReachesTransport(cur'))
          => /\ tx' = <<>>
             /\ rx' = rx
             /\ resp'.isNone
             /\ pc' = "idle"
             /\ exc' = "none"
             /\ port' = port
             /\ NotOpen \in Range(log')]_vars

\* C2: a device operation invoked on a constructed client before any open()
\* (and any close()) is a reported error and a no-op: nothing is raised,
\* nothing is written, an error is logged.
C2_FreshClientOperationsAreReported ==
    (opens = 0 /\ closes = 0 /\ ops > 0)
        => /\ exc = "none"
           /\ pc = "idle"
           /\ tx = <<>>
           /\ HasError(log)

\* the two-letter code each query operation asks about
QueryCode(op) ==
    CASE op = "query_power" -> <<"P", "W">>
      [] op = "query_volume" -> <<"M", "V">>
      [] op = "query_source" -> <<"S", "I">>

\* C3: on an Open session a query writes exactly code + "?" + CR before it
\* reads anything, and the read that follows returns at most 135 bytes, the
\* bytes at the head of the input, stopping behind the first carriage return
\* or at 135 bytes, whichever comes first.
C3_QueryWritesThenReadsBounded ==
    [][/\ (Invoked /\ port = "open" /\ cur'.op \in QueryOps)
            => /\ tx' = <<QueryCode(cur'.op) \o <<"?", "\r">>>>
               /\ rx' = rx
               /\ resp'.isNone
               /\ pc' \in {"reading", "raised"}
       /\ (pc = "reading" /\ pc' = "idle")
            => LET r == resp'.bytes IN
                  /\ ~resp'.isNone
                  /\ tx' = tx
                  /\ tx = <<QueryCode(cur.op) \o <<"?", "\r">>>>
                  /\ Len(r) \in 1..135
                  /\ r \o rx' = rx
                  /\ \A k \in 1..(Len(r) - 1) : r[k] # "\r"
                  /\ (r[Len(r)] = "\r" \/ Len(r) = 135)]_vars

\* a query returned a line and left the bytes behind its carriage return unread
C3_Witness ==
    /\ pc = "idle"
    /\ cur.op = "query_volume"
    /\ tx = <<<<"M", "V", "?", "\r">>>>
    /\ ~resp.isNone
    /\ Len(resp.bytes) < 135
    /\ resp.bytes[Len(resp.bytes)] = "\r"
    /\ rx # <<>>

\* C4: for every percent in 0..100, set_volume(percent) on an Open session
\* transmits "MV" + device + CR, where device is percent*(65-25)/100 + 25 in
\* integer arithmetic (the quotient rounded down); 0 gives 25, 50 gives 45
\* and 100 gives 65.
C4_SetVolumeMapsPercent ==
    [][(Invoked /\ port = "open" /\ cur'.op = "set_volume" /\ cur'.level \in 0..100)
          => /\ \E d \in 25..65 :
                  /\ 100 * (d - 25) <= cur'.level * (65 - 25)
                  /\ cur'.level * (65 - 25) < 100 * (d - 25) + 100
                  /\ tx' = <<<<"M", "V", Digit[(d \div 10) + 1], Digit[(d % 10) + 1], "\r">>>>
             /\ (cur'.level = 0 => tx' = <<<<"M", "V", "2", "5", "\r">>>>)
             /\ (cur'.level = 50 => tx' = <<<<"M", "V", "4", "5", "\r">>>>)
             /\ (cur'.level = 100 => tx' = <<<<"M", "V", "6", "5", "\r">>>>)]_vars

\* set_volume(50) was transmitted as MV45 on an Open session
C4_Witness ==
    /\ cur.op = "set_volume"
    /\ cur.level = 50
    /\ port = "open"
    /\ exc = "none"
    /\ tx = <<<<"M", "V", "4", "5", "\r">>>>

\* no line written is an MV command with an unsigned value above 65
NoLoudLine ==
    \A i \in 1..Len(tx) :
        (Len(tx[i]) >= 3 /\ tx[i][1] = "M" /\ tx[i][2] = "V" /\ tx[i][3] \in Range(Digit))
            => \E d \in 0..65 :
                  tx[i] = IF d < 10 THEN <<"M", "V", Digit[d + 1], "\r">>
                          ELSE <<"M", "V", Digit[(d \div 10) + 1], Digit[(d % 10) + 1], "\r">>

\* C5: for every percent whose computed device value is above 65 (40*percent
\* >= 4100), set_volume transmits nothing, logs an error, raises nothing and
\* leaves the session as it was (Open stays Open); and no MV command with a
\* value above 65 is ever written.
C5_AboveMaxIsNeverSent ==
    /\ [][(Invoked /\ cur'.op = "set_volume" /\ cur'.level * (65 - 25) >= 100 * (66 - 25))
             => /\ tx' = <<>>
                /\ HasError(log')
                /\ port' = port
                /\ pc' = pc
                /\ exc' = "none"
                /\ rx' = rx]_vars
    /\ []NoLoudLine

\* set_volume(103), device value 66, was rejected on an Open session
C5_Witness ==
    /\ cur.op = "set_volume"
    /\ cur.level = 103
    /\ port = "open"
    /\ tx = <<>>
    /\ HasError(log)
    /\ exc = "none"

\* C6 (as stated): query_power() with the reply "PWON" + CR yields "PWON",
\* the terminator stripped, and logs it; no reply returned by query()
\* contains a carriage return.
C6_ReplyIsStripped ==
    ~resp.isNone
        => /\ "\r" \notin Range(resp.bytes)
           /\ (cur.op = "query_power" /\ Len(resp.bytes) >= 4
                 /\ SubSeq(resp.bytes, 1, 4) = <<"P", "W", "O", "N">>)
                => /\ resp.bytes = <<"P", "W", "O", "N">>
                   /\ log[Len(log)].arg = <<"P", "W", "O", "N">>

\* C6 (amended): query_power() with the reply "PWON" + CR yields "PWON" + CR,
\* the terminator included, and that reply is what is logged; every reply
\* query() returns is logged as returned, and it ends with the carriage
\* return whenever one arrived within the first 135 bytes.
C6_ReplyKeepsTerminator ==
    [][(pc = "reading" /\ pc' = "idle")
          => /\ ~resp'.isNone
             /\ log' = Append(log, [level |-> "info", msg |-> Label(cur.op),
                                    arg |-> resp'.bytes])
             /\ (cur.op = "query_power" /\ Len(rx) >= 5
                   /\ SubSeq(rx, 1, 5) = <<"P", "W", "O", "N", "\r">>)
                  => /\ resp'.bytes = <<"P", "W", "O", "N", "\r">>
                     /\ log'[Len(log')] = [level |-> "info", msg |-> "power: ",
                                           arg |-> <<"P", "W", "O", "N", "\r">>]
             /\ (\E k \in 1..Len(rx) : k <= 135 /\ rx[k] = "\r")
                  => resp'.bytes[Len(resp'.bytes)] = "\r"]_vars

\* query_power() returned "PWON" + CR and logged it
C6_Witness ==
    /\ pc = "idle"
    /\ cur.op = "query_power"
    /\ resp = [isNone |-> FALSE, bytes |-> <<"P", "W", "O", "N", "\r">>]
    /\ log[Len(log)] = [level |-> "info", msg |-> "power: ",
                        arg |-> <<"P", "W", "O", "N", "\r">>]

\* C7: when more than 135 bytes without a carriage return have arrived, the
\* read returns exactly the first 135 of them, raises nothing, leaves the
\* rest in the input, and the truncated reply is what the caller gets.
C7_LongReplyIsTruncated ==
    [][(pc = "reading" /\ pc' = "idle" /\ Len(rx) > 135
          /\ \A k \in 1..Len(rx) : rx[k] # "\r")
          => /\ resp' = [isNone |-> FALSE, bytes |-> SubSeq(rx, 1, 135)]
             /\ rx' = SubSeq(rx, 136, Len(rx))
             /\ exc' = "none"
             /\ log'[Len(log')].arg = SubSeq(rx, 1, 135)]_vars

\* a reply of 200 bytes without a carriage return was cut to 135 bytes
C7_Witness ==
    /\ pc = "idle"
    /\ exc = "none"
    /\ ~resp.isNone
    /\ Len(resp.bytes) = 135
    /\ "\r" \notin Range(resp.bytes)
    /\ Len(rx) = 65

\* C8: on an Open session set_source(name) writes exactly "SI" + name + CR,
\* for every name, in or out of the source vocabulary, and reads nothing;
\* set_source("TUNER") writes "SITUNER" + CR.
C8_SetSourceSendsAnyName ==
    [][(Invoked /\ port = "open" /\ cur'.op = "set_source")
          => /\ tx' = <<<<"S", "I">> \o cur'.name \o <<"\r">>>>
             /\ (cur'.name = <<"T", "U", "N", "E", "R">>
                  => tx' = <<<<"S", "I", "T", "U", "N", "E", "R", "\r">>>>)
             /\ rx' = rx
             /\ pc' # "reading"]_vars

\* a name outside the vocabulary was transmitted
C8_Witness ==
    /\ cur.op = "set_source"
    /\ cur.name \notin Sources
    /\ cur.name # <<>>
    /\ port = "open"
    /\ exc = "none"
    /\ tx = <<<<"S", "I">> \o cur.name \o <<"\r">>>>

\* C9: on an Open session power_off() writes exactly "PWSTANDBY" + CR and
\* power_on() writes exactly "PWON" + CR, each as one write, and neither
\* reads.
C9_PowerCommandsAreFixed ==
    [][(Invoked /\ port = "open")
          => /\ cur'.op = "power_off"
                  => /\ tx' = <<<<"P", "W", "S", "T", "A", "N", "D", "B", "Y", "\r">>>>
                     /\ rx' = rx
                     /\ pc' # "reading"
             /\ cur'.op = "power_on"
                  => /\ tx' = <<<<"P", "W", "O", "N", "\r">>>>
                     /\ rx' = rx
                     /\ pc' # "reading"]_vars

\* power_off() was transmitted on an Open session
C9_Witness ==
    /\ cur.op = "power_off"
    /\ port = "open"
    /\ exc = "none"
    /\ tx = <<<<"P", "W", "S", "T", "A", "N", "D", "B", "Y", "\r">>>>

\* C10 (as stated): every run that ends has called open() exactly once,
\* then exactly one device operation, then close() exactly once, whatever
\* the subcommand and arguments.
C10_RunInvokesExactlyOneOperation ==
    mpc = "done" => (opens = 1 /\ ops = 1 /\ closes = 1)

\* the command line "volume" with neither the query flag nor a level
NoOperationArgs == args.sub = "volume" /\ ~args.query /\ ~args.hasLevel

\* C10 (amended): in every run open() is called at most once and first, a
\* device operation is invoked at most once and only after open() has
\* returned and before close(), and close() is called at most once and only
\* after the dispatched function has returned; a run that reaches the end of
\* main has called open() once, then exactly one device operation (none for
\* "volume" with neither the query flag nor a level), then close() once.
C10_RunOrder ==
    /\ [](opens <= 1 /\ ops <= 1 /\ closes <= 1)
    /\ [][/\ opens' # opens => (mpc = "constructed" /\ ops = 0 /\ closes = 0)
          /\ ops' # ops => (mpc = "opened" /\ opens = 1 /\ closes = 0 /\ port = "open")
          /\ closes' # closes => (mpc = "called" /\ opens = 1 /\ pc = "idle")]_vars
    /\ [](mpc = "done"
            => /\ opens = 1
               /\ closes = 1
               /\ ops = (IF NoOperationArgs THEN 0 ELSE 1)
               /\ port = "closed")

\* a run ended after open(), one device operation and close()
C10_Witness ==
    /\ mpc = "done"
    /\ opens = 1
    /\ ops = 1
    /\ closes = 1
    /\ cur.op = "set_volume"
    /\ tx # <<>>

\* C11: a transport failure in open(), in a write or in a read is not
\* absorbed.  An open() either opens the port or raises; the exception is
\* raised without an error being logged in its place; and once it is raised
\* the run has ended where it was: nothing more is written, read, logged or
\* called, and close() is never reached.
C11_TransportFailurePropagates ==
    /\ [][opens' # opens
             => \/ port' = "open" /\ exc' = "none" /\ pc' = "idle"
                \/ port' # "open" /\ exc' = "SerialException" /\ pc' = "raised"]_vars
    /\ [][exc # "none"
             => /\ exc' = exc
                /\ pc' = pc
                /\ tx' = tx
                /\ resp' = resp
                /\ log' = log
                /\ port' = port
                /\ mpc' = mpc
                /\ <<opens, ops, closes>>' = <<opens, ops, closes>>]_vars
    /\ [](exc = "SerialException"
            => /\ pc = "raised"
               /\ mpc \in {"opened", "called"}
               /\ closes = 0
               /\ ~HasError(log))

\* a write or a read failed after the query line was handed to the transport
C11_Witness ==
    /\ exc = "SerialException"
    /\ mpc = "called"
    /\ cur.op = "query_power"
    /\ tx = <<<<"P", "W", "?", "\r">>>>
    /\ port = "open"

\* a carriage return or 135 bytes have arrived
RxReady == Len(rx) >= 135 \/ "\r" \in Range(rx)

\* C12: a query on an Open session returns only when a carriage return or
\* 135 bytes have arrived, and can return as soon as they have; while the
\* receiver stays silent, or has sent fewer than 135 bytes without a carriage
\* return and sends no more, the read stays blocked: the query does not
\* return and the run does not reach close().
C12_ReadBlocksUntilTerminatorOrSize ==
    /\ [][(pc = "reading" /\ pc' = "idle") => RxReady]_vars
    /\ []((pc = "reading" /\ RxReady) => ENABLED (QueryRead /\ pc' = "idle"))
    /\ [][(pc = "reading" /\ ~pending /\ ~RxReady)
             => /\ pc' # "idle"
                /\ rx' = rx
                /\ resp' = resp
                /\ closes' = closes
                /\ mpc' = mpc]_vars
    /\ [](pc = "reading" => (mpc = "called" /\ closes = 0 /\ port = "open"))

\* the receiver sent 134 bytes without a carriage return and nothing more
C12_Witness ==
    /\ pc = "reading"
    /\ mpc = "called"
    /\ ~pending
    /\ Len(rx) = 134
    /\ "\r" \notin Range(rx)
    /\ closes = 0

\* C13 (as stated): on an Open session a command operation performs at most
\* one write and no read, and a query operation performs exactly one write
\* followed by exactly one read.
C13_QueryWritesOnceAndReadsOnce ==
    [][(Invoked /\ port = "open")
          => /\ cur'.op \notin QueryOps => (Len(tx') <= 1 /\ pc' # "reading")
             /\ cur'.op \in QueryOps => (Len(tx') = 1 /\ pc' = "reading")]_vars

\* C13 (amended): there is no retry.  No operation writes a second line, and
\* lines are written only when an operation is invoked; a command operation
\* performs at most one write and no read; a query operation on an Open
\* session performs exactly one write, followed by exactly one read unless
\* that write fails with a transport error; a read starts only when a query
\* is invoked, and when it ends the operation ends without another write.
C13_NoRetry ==
    /\ [](Len(tx) <= 1)
    /\ [][/\ tx' # tx => Invoked
          /\ (pc' = "reading" /\ pc # "reading") => Invoked
          /\ (pc = "reading" /\ pc' # "reading")
                => (tx' = tx /\ pc' \in {"idle", "raised"})
          /\ (Invoked /\ cur'.op \notin QueryOps)
                => (pc' # "reading" /\ rx' = rx /\ resp'.isNone)
          /\ (Invoked /\ port = "open" /\ cur'.op \in QueryOps)
                => /\ Len(tx') = 1
                   /\ rx' = rx
                   /\ \/ pc' = "reading" /\ exc' = "none"
                      \/ pc' = "raised" /\ exc' = "SerialException"]_vars

\* a query wrote its one line, read once and returned
C13_Witness ==
    /\ pc = "idle"
    /\ exc = "none"
    /\ cur.op \in QueryOps
    /\ Len(tx) = 1
    /\ ~resp.isNone

\* the value of an MV command line, for the lines set_volume can write
MVLines(lo, hi) == {<<"M", "V">> \o FormatInt(d) \o <<"\r">> : d \in lo..hi}

\* C14: every MV command ever transmitted carries a device value in 25..65,
\* whatever integer percentage the dispatcher passed.
C14_VolumeStaysInWindow ==
    \A i \in 1..Len(tx) :
        (Len(tx[i]) >= 3 /\ tx[i][1] = "M" /\ tx[i][2] = "V" /\ tx[i][3] # "?")
            => tx[i] \in MVLines(min_volume, max_volume)

\* C15 (as stated): a device operation writes to the transport if and only
\* if the session is Open.
C15_DeviceOperationWritesIffOpen ==
    [][Invoked => (tx' # <<>> <=> port = "open")]_vars

\* C15 (amended): a successful open() leaves the session Open and a
\* successful close() leaves it Closed, nothing else changes the session, and
\* a client that was never opened is not Open; so the session is Open exactly
\* when the most recent lifecycle call was open().  A device operation other
\* than a set_volume whose device value is above 65 writes to the transport
\* if and only if the session is Open, a closed and reopened one included.
C15_LifecycleGatesWrites ==
    /\ []((opens = 0) => port # "open")
    /\ [][/\ (opens' # opens /\ exc' = "none") => port' = "open"
          /\ (closes' # closes /\ exc' = "none") => port' = "closed"
          /\ port' # port => (opens' # opens \/ closes' # closes)
          /\ (Invoked /\ ReachesTransport(cur'))
                => (tx' # <<>> <=> port = "open")
          /\ (Invoked /\ ~ReachesTransport(cur')) => tx' = <<>>]_vars

\* a client that was opened, closed and opened again has just written a line
C15_Witness ==
    /\ opens = 2
    /\ closes = 1
    /\ port = "open"
    /\ pc = "reading"
    /\ Len(tx) = 1

\* C16: no run ends with the session still Open: once main has returned or
\* an exception has ended it, the session that open() opened has been closed.
C16_EveryOpenedRunCloses ==
    (mpc = "done" \/ pc = "raised") => port # "open"

\* the one line a run with the query flag may send, by subcommand
SubQueryLine ==
    CASE args.sub = "volume" -> <<"M", "V", "?", "\r">>
      [] args.sub = "power" -> <<"P", "W", "?", "\r">>
      [] args.sub = "source" -> <<"S", "I", "?", "\r">>

\* C17: a run with the query flag set sends nothing but the query line of its
\* subcommand ("MV?", "PW?" or "SI?" plus carriage return), whatever level,
\* power or source argument came with it, and that line is what its
\* dispatched operation writes; a run without the query flag sends no query
\* line.
C17_QueryFlagSendsOnlyQuery ==
    /\ args.query
          => /\ tx \in {<<>>, <<SubQueryLine>>}
             /\ mpc \in {"called", "done"}
                   => (tx = <<SubQueryLine>> /\ cur.op \in QueryOps)
    /\ ~args.query
          => /\ cur.op \notin QueryOps
             /\ \A i \in 1..Len(tx) : "?" \notin Range(tx[i])

\* a run "-q volume -l <level>" has ended having sent only "MV?"
C17_Witness ==
    /\ args.query
    /\ args.sub = "volume"
    /\ args.hasLevel
    /\ mpc = "done"
    /\ tx = <<<<"M", "V", "?", "\r">>>>

\* C18 (as stated): after n clients have been constructed the shared logger
\* holds n handlers, and one log call by any of them is emitted n times
\* (a call that the logger's own level lets through, at least).
C18_EveryCallIsEmittedNTimes ==
    /\ Len(handlers) = instances
    /\ \A i \in 1..Len(log) :
          LevelNo(MethodLevel(log[i].level)) >= LevelNo(loggerLevel)
              => Emitted(log[i]) = instances

\* every handler's level, and so the logger's, admits the record r
AllAdmit(r) ==
    \A k \in 1..Len(handlers) :
        LevelNo(handlers[k]) <= LevelNo(MethodLevel(r.level))

\* C18 (amended): after n clients have been constructed the shared logger
\* holds n handlers.  One log call by any of them is emitted once by each
\* handler whose level is not above the call's, never more than n times, and
\* not at all when the call is below the level the latest client set on the
\* logger; it is emitted n times when no client was constructed with a level
\* above the call's.  Constructing a client adds one handler, nothing else
\* changes the handlers: their number never decreases and close() removes
\* none.
C18_HandlersAccumulate ==
    /\ [](Len(handlers) = instances)
    /\ [](\A i \in 1..Len(log) :
            /\ Emitted(log[i]) <= instances
            /\ AllAdmit(log[i]) => Emitted(log[i]) = instances
            /\ LevelNo(MethodLevel(log[i].level)) < LevelNo(handlers[Len(handlers)])
                  => Emitted(log[i]) = 0)
    /\ [][/\ Len(handlers') >= Len(handlers)
          /\ SubSeq(handlers', 1, Len(handlers)) = handlers
          /\ instances' = instances + 1 => Len(handlers') = Len(handlers) + 1
          /\ instances' = instances => handlers' = handlers
          /\ closes' # closes => handlers' = handlers]_vars

\* with two clients constructed, close() has logged 'closing' and the call is
\* emitted twice
C18_Witness ==
    /\ instances = 2
    /\ closes = 1
    /\ port = "closed"
    /\ log = <<Rec("debug", "closing", <<>>)>>
    /\ Emitted(log[1]) = 2

====
